---- MODULE Spec2Model ----
(***************************************************************************)
(* Model of timeconvs.py: the process-wide calibration table TIMECONVS,    *)
(* the two load functions, the four piecewise-linear cross-sensor          *)
(* conversions and the six direct affine native/relative conversions.      *)
(*                                                                         *)
(* Numbers (Python floats) are modelled as exact rationals <<n, d>> in     *)
(* lowest terms with d > 0; None is the empty tuple.  A caller thread      *)
(* executes one conversion call statement by statement, and loads are      *)
(* atomic assignments of the global that may interleave with it.           *)
(***************************************************************************)
EXTENDS Integers, Sequences, FiniteSets

VARIABLES
  TIMECONVS,     \* the module global: a reference to the loaded object
  pc,            \* position of the caller inside a conversion call
  fn,            \* name of the conversion function being executed
  arg,           \* its argument: [is_numpy_array, v]
  timeconvs,     \* the local reference taken by `timeconvs = TIMECONVS`
  idx,           \* position of the for loop in the rule list (1-based)
  out,           \* the local result (dvs_ts / rs_ts / lidar_ts)
  indexes,       \* the local `indexes` of the last loop iteration
  outcome,       \* how the conversion call ended
  loaded,        \* history: some load call has returned without raising
  load_tick,     \* history: flips at every load call
  load_outcome,  \* how the last load call ended
  prev           \* history: the call whose result was fed to this call

vars == <<TIMECONVS, pc, fn, arg, timeconvs, idx, out, indexes, outcome,
          loaded, load_tick, load_outcome, prev>>

-----------------------------------------------------------------------------
(* Bounds of the model *)

MaxRules == 2
MaxBatch == 2
MaxTs == 3

-----------------------------------------------------------------------------
(* Python values *)

None == <<>>

PyNone == [kind |-> "None"]
EmptyDict == [kind |-> "dict"]

Abs(x) == IF x < 0 THEN -x ELSE x

RECURSIVE Gcd(_, _)
Gcd(a, b) == IF b = 0 THEN a ELSE Gcd(b, a % b)

\* a rational in lowest terms with a positive denominator
Norm(n, d) ==
  LET g == Gcd(Abs(n), Abs(d))
      s == IF d < 0 THEN -1 ELSE 1
  IN <<(s * n) \div g, (s * d) \div g>>

Num(n) == <<n, 1>>

Mul(a, b) == Norm(a[1] * b[1], a[2] * b[2])
Add(a, b) == Norm(a[1] * b[2] + b[1] * a[2], a[2] * b[2])
Sub(a, b) == Norm(a[1] * b[2] - b[1] * a[2], a[2] * b[2])
Gt(a, b) == a[1] * b[2] > b[1] * a[2]
Le(a, b) == a[1] * b[2] <= b[1] * a[2]

\* numpy's elementwise true division: x/0 is inf, -inf or nan (zero denominator)
NpDiv(a, b) ==
  IF b[1] = 0
  THEN <<(IF a[1] > 0 THEN 1 ELSE IF a[1] < 0 THEN -1 ELSE 0), 0>>
  ELSE Norm(a[1] * b[2], a[2] * b[1])

Finite(x) == x[2] # 0

\* `not TIMECONVS`: None and the empty dict are falsy
Falsy(v) == v.kind = "None" \/ DOMAIN v = {"kind"}

-----------------------------------------------------------------------------
(* Calibration documents *)

Keys == <<"rs_to_dvs", "lidar_to_dvs", "dvs_to_rs", "dvs_to_lidar">>

\* the rule at position i of the list of key j, in variant v of a document:
\* conv_k identifies the position, conv_b the key and the variant
RuleAt(shape, i, j, v) ==
  [interval |-> <<shape.lo, shape.hi>>, inner |-> shape.inner,
   conv_k |-> <<2 * i + 1, 2>>, conv_b |-> Num(j + 4 * v)]

RuleList(shapes, j, v) == [i \in 1..Len(shapes) |-> RuleAt(shapes[i], i, j, v)]

Table(shapes, v, sc) ==
  [kind |-> "dict",
   rs_to_dvs |-> RuleList(shapes, 1, v),
   lidar_to_dvs |-> RuleList(shapes, 2, v),
   dvs_to_rs |-> RuleList(shapes, 3, v),
   dvs_to_lidar |-> RuleList(shapes, 4, v),
   dvs_timestamp_scale |-> sc[1], dvs_offset_s |-> sc[2],
   lidar_timestamp_scale |-> sc[3], lidar_offset_s |-> sc[4],
   rs_timestamp_scale |-> sc[5], rs_offset_s |-> sc[6]]

\* every combination of absent and present endpoints with both values of inner
Shapes == [lo : {None, Num(1)}, hi : {None, Num(2)}, inner : BOOLEAN]

RECURSIVE SetToSeq(_)
SetToSeq(S) ==
  IF S = {} THEN <<>>
  ELSE LET x == CHOOSE y \in S : TRUE IN <<x>> \o SetToSeq(S \ {x})

ShapeSeq == SetToSeq(Shapes)

\* the rule lists of one length, each list of the shorter length extended by
\* each shape
RECURSIVE ListsOfLen(_)
ListsOfLen(n) ==
  IF n = 0 THEN << <<>> >>
  ELSE LET shorter == ListsOfLen(n - 1)
           w == Len(ShapeSeq)
       IN [k \in 1..(Len(shorter) * w) |->
             Append(shorter[((k - 1) \div w) + 1], ShapeSeq[((k - 1) % w) + 1])]

RECURSIVE ListsUpTo(_)
ListsUpTo(n) == IF n = 0 THEN ListsOfLen(0) ELSE ListsUpTo(n - 1) \o ListsOfLen(n)

ShapeListSeq == ListsUpTo(MaxRules)
ShapeLists == {ShapeListSeq[k] : k \in 1..Len(ShapeListSeq)}

ScalarsA == <<<<1, 2>>, Num(1), <<1, 4>>, Num(2), Num(3), <<1, 2>>>>
ScalarsB == <<Num(2), <<3, 2>>, Num(-1), Num(1), <<1, 3>>, Num(0)>>

MapTableSeq == [k \in 1..Len(ShapeListSeq) |-> Table(ShapeListSeq[k], 0, ScalarsA)]
MapTables == {MapTableSeq[k] : k \in 1..Len(MapTableSeq)}

\* two documents whose rule lists overlap at 2 and differ in every coefficient
TableA ==
  Table(<<[lo |-> None, hi |-> Num(2), inner |-> FALSE],
          [lo |-> Num(1), hi |-> None, inner |-> FALSE]>>, 0, ScalarsA)
TableB ==
  Table(<<[lo |-> Num(1), hi |-> Num(2), inner |-> TRUE],
          [lo |-> None, hi |-> Num(2), inner |-> FALSE]>>, 1, ScalarsB)

\* a table authored as a chain of change-points: (-inf, b1], (b1, b2], ..., (bn, +inf)
ChangePoints == {Num(n) : n \in 1..(MaxTs - 1)}

Least(S) == CHOOSE x \in S : \A y \in S : Le(x, y)

RECURSIVE Sorted(_)
Sorted(S) == IF S = {} THEN <<>> ELSE <<Least(S)>> \o Sorted(S \ {Least(S)})

ChainShapes(bs) ==
  [i \in 1..(Len(bs) + 1) |->
     IF i = 1 THEN [lo |-> None, hi |-> bs[1], inner |-> FALSE]
     ELSE IF i = Len(bs) + 1 THEN [lo |-> bs[Len(bs)], hi |-> None, inner |-> FALSE]
     ELSE [lo |-> bs[i - 1], hi |-> bs[i], inner |-> TRUE]]

ChainTables ==
  {Table(ChainShapes(Sorted(S)), 0, ScalarsA) : S \in (SUBSET ChangePoints) \ {{}}}

\* scale and offset of every sensor, each sensor with its own pair
Scales == <<Num(0), <<1, 2>>, Num(-2)>>
Offsets == <<Num(0), <<3, 2>>>>

AffineScalars(i, j) ==
  <<Scales[(i % 3) + 1], Offsets[(j % 2) + 1],
    Scales[((i + 1) % 3) + 1], Offsets[((j + 1) % 2) + 1],
    Scales[((i + 2) % 3) + 1], Offsets[(j % 2) + 1]>>

AffineTables == {Table(<<>>, 0, AffineScalars(i, j)) : i \in 0..2, j \in 0..1}

\* the objects json.loads can return in this model (TableA is one of
\* MapTables); a reference to one is its position in the heap, and NoneRef
\* refers to None.  Objects are never mutated, so equal documents share one
\* object.
Heap ==
  <<EmptyDict, TableB>> \o MapTableSeq \o SetToSeq(ChainTables) \o SetToSeq(AffineTables)

NoneRef == 0

Deref(r) == IF r = NoneRef THEN PyNone ELSE Heap[r]
RefTo(v) == IF v = PyNone THEN NoneRef ELSE CHOOSE r \in 1..Len(Heap) : Heap[r] = v
RefsTo(tables) == {r \in 1..Len(Heap) : Heap[r] \in tables}

-----------------------------------------------------------------------------
(* The interval mapper: one iteration of the for loop, lines 83-96 (and its
   copies at 117-130, 151-164, 185-198) *)

Ok(v) == [exc |-> "none", at |-> "", value |-> v]
Raise(e, where) == [exc |-> e, at |-> where, value |-> None]
NoOutcome == [exc |-> "pending", at |-> "", value |-> None]

\* the branch of the if/elif chain a rule takes
Branch(tc) ==
  IF tc.inner THEN "inner"
  ELSE IF tc.interval[1] = None THEN "left"
  ELSE IF tc.interval[2] = None THEN "right"
  ELSE "else"

\* ordering a number against None raises TypeError
CompareRaises(tc) ==
  \/ Branch(tc) = "inner" /\ (tc.interval[1] = None \/ tc.interval[2] = None)
  \/ Branch(tc) = "left" /\ tc.interval[2] = None

\* mutant: the lower bound of an inner interval taken as inclusive
InnerTestClosed(x, interval) == ~Gt(interval[1], x) /\ Le(x, interval[2])
InnerTest(x, interval) == Gt(x, interval[1]) /\ Le(x, interval[2])
LeftTest(x, interval) == Le(x, interval[2])
\* mutant: the lower bound of a right-unbounded interval taken as inclusive
RightTestClosed(x, interval) == ~Gt(interval[1], x)
RightTest(x, interval) == Gt(x, interval[1])

\* the comparison of one timestamp, for a rule whose comparison does not raise
ElemTest(tc, x) ==
  IF Branch(tc) = "inner" THEN InnerTest(x, tc.interval)
  ELSE IF Branch(tc) = "left" THEN LeftTest(x, tc.interval)
  ELSE RightTest(x, tc.interval)

\* `indexes`: a bool for a scalar, a boolean mask for an array
Mask(tc, a) ==
  IF a.is_numpy_array
  THEN [p \in 1..Len(a.v) |-> ElemTest(tc, a.v[p])]
  ELSE ElemTest(tc, a.v)

LinearMap(x, tc) == Add(Mul(x, tc.conv_k), tc.conv_b)

\* mutant: a position already written by an earlier rule is kept
ArrayAssignFirst(dvs_ts, mask, rs_ts, tc) ==
  [p \in 1..Len(dvs_ts) |->
     IF mask[p] /\ dvs_ts[p] = Num(0) THEN LinearMap(rs_ts[p], tc) ELSE dvs_ts[p]]

\* dvs_ts[indexes] = rs_ts[indexes] * tc["conv_k"] + tc["conv_b"]
ArrayAssign(dvs_ts, mask, rs_ts, tc) ==
  [p \in 1..Len(dvs_ts) |-> IF mask[p] THEN LinearMap(rs_ts[p], tc) ELSE dvs_ts[p]]

\* mutant: the loop stops at the first match (a break after the assignment)
ScalarAssignFirst(dvs_ts, mask, rs_ts, tc) ==
  IF mask /\ dvs_ts = None THEN LinearMap(rs_ts, tc) ELSE dvs_ts

\* elif indexes: dvs_ts = rs_ts * tc["conv_k"] + tc["conv_b"]
ScalarAssign(dvs_ts, mask, rs_ts, tc) ==
  IF mask THEN LinearMap(rs_ts, tc) ELSE dvs_ts

\* mutant: the result starts as a copy of the input (np.copy)
FullLikeInput(rs_ts) == rs_ts

\* np.full_like(rs_ts, 0)
FullLikeZero(rs_ts) == [p \in 1..Len(rs_ts) |-> Num(0)]

InitOut(a) == IF a.is_numpy_array THEN FullLikeZero(a.v) ELSE None

\* one iteration: the exception it raises, or the new indexes and result
Iteration(tc, a, dvs_ts) ==
  IF Branch(tc) = "else"
  THEN [exc |-> "RuntimeError", at |-> "else", indexes |-> None, out |-> dvs_ts]
  ELSE IF CompareRaises(tc)
  THEN [exc |-> "TypeError", at |-> "compare", indexes |-> None, out |-> dvs_ts]
  ELSE LET m == Mask(tc, a)
       IN [exc |-> "none", at |-> "", indexes |-> m,
           out |-> IF a.is_numpy_array
                   THEN ArrayAssign(dvs_ts, m, a.v, tc)
                   ELSE ScalarAssign(dvs_ts, m, a.v, tc)]

ConvertFns == {"convert_rs_to_dvs", "convert_lidar_to_dvs",
               "convert_dvs_to_rs", "convert_dvs_to_lidar"}

\* the list each conversion iterates over
RulesOf(f, t) ==
  CASE f = "convert_rs_to_dvs" -> t.rs_to_dvs
    [] f = "convert_lidar_to_dvs" -> t.lidar_to_dvs
    [] f = "convert_dvs_to_rs" -> t.dvs_to_rs
    [] f = "convert_dvs_to_lidar" -> t.dvs_to_lidar

\* subscripting the local reference: None is not subscriptable, {} has no key
SubscriptError(t) ==
  IF t.kind = "None" THEN Raise("TypeError", "subscript")
  ELSE IF DOMAIN t = {"kind"} THEN Raise("KeyError", "subscript")
  ELSE Ok(None)

-----------------------------------------------------------------------------
(* The direct affine conversions, lines 209-283 *)

\* ts * scale - offset, elementwise on an array
NativeToRelative(a, scale, offset) ==
  IF a.is_numpy_array
  THEN Ok([p \in 1..Len(a.v) |-> Sub(Mul(a.v[p], scale), offset)])
  ELSE Ok(Sub(Mul(a.v, scale), offset))

\* (ts + offset) / scale: a Python float raises on a zero scale, numpy does not
RelativeToNative(a, offset, scale) ==
  IF a.is_numpy_array
  THEN Ok([p \in 1..Len(a.v) |-> NpDiv(Add(a.v[p], offset), scale)])
  ELSE IF scale[1] = 0
  THEN Raise("ZeroDivisionError", "divide")
  ELSE Ok(NpDiv(Add(a.v, offset), scale))

\* mutant: the DVS conversion subtracts the lidar offset
dvs_native_to_relative_lidar_offset(t, ts) ==
  NativeToRelative(ts, t.dvs_timestamp_scale, t.lidar_offset_s)

dvs_native_to_relative(t, ts) ==
  NativeToRelative(ts, t.dvs_timestamp_scale, t.dvs_offset_s)
dvs_relative_to_native(t, ts) ==
  RelativeToNative(ts, t.dvs_offset_s, t.dvs_timestamp_scale)
lidar_native_to_relative(t, ts) ==
  NativeToRelative(ts, t.lidar_timestamp_scale, t.lidar_offset_s)
lidar_relative_to_native(t, ts) ==
  RelativeToNative(ts, t.lidar_offset_s, t.lidar_timestamp_scale)
rs_native_to_relative(t, ts) ==
  NativeToRelative(ts, t.rs_timestamp_scale, t.rs_offset_s)
rs_relative_to_native(t, ts) ==
  RelativeToNative(ts, t.rs_offset_s, t.rs_timestamp_scale)

AffineFns == {"dvs_native_to_relative", "dvs_relative_to_native",
              "lidar_native_to_relative", "lidar_relative_to_native",
              "rs_native_to_relative", "rs_relative_to_native"}

AffineReturn(f, t, ts) ==
  CASE f = "dvs_native_to_relative" -> dvs_native_to_relative(t, ts)
    [] f = "dvs_relative_to_native" -> dvs_relative_to_native(t, ts)
    [] f = "lidar_native_to_relative" -> lidar_native_to_relative(t, ts)
    [] f = "lidar_relative_to_native" -> lidar_relative_to_native(t, ts)
    [] f = "rs_native_to_relative" -> rs_native_to_relative(t, ts)
    [] f = "rs_relative_to_native" -> rs_relative_to_native(t, ts)

-----------------------------------------------------------------------------
(* A whole call, executed without interruption on one table *)

\* the for loop from rule i on, with result o so far, to its return or raise
RECURSIVE Loop(_, _, _, _)
Loop(rules, i, a, o) ==
  IF i > Len(rules) THEN Ok(o)
  ELSE LET r == Iteration(rules[i], a, o)
       IN IF r.exc # "none" THEN Raise(r.exc, r.at) ELSE Loop(rules, i + 1, a, r.out)

\* the statements after `timeconvs = TIMECONVS`, with t the local reference
Body(f, t, a) ==
  LET e == SubscriptError(t)
  IN IF e.exc # "none" THEN e
     ELSE IF f \in ConvertFns THEN Loop(RulesOf(f, t), 1, a, InitOut(a))
     ELSE AffineReturn(f, t, a)

\* a call of function f while the global holds table t
CallOn(f, t, a) ==
  IF Falsy(t) THEN Raise("RuntimeError", "guard") ELSE Body(f, t, a)

-----------------------------------------------------------------------------
(* The calibration store: lines 45-63 *)

\* a JSON text is modelled by what json.loads makes of it
Garbage == [valid |-> FALSE, doc |-> NoneRef]
JsonText(v) == [valid |-> TRUE, doc |-> RefTo(v)]

json_loads(json_string) ==
  IF json_string.valid
  THEN [exc |-> "none", value |-> json_string.doc]
  ELSE [exc |-> "ValueError", value |-> NoneRef]

NoLoad == [exc |-> "no call"]

\* mutant: the global is cleared before the text is parsed
load_from_json_string_clearing(json_string) ==
  LET r == json_loads(json_string)
  IN /\ TIMECONVS' = IF r.exc = "none" THEN r.value ELSE NoneRef
     /\ loaded' = (loaded \/ r.exc = "none")
     /\ load_outcome' = [exc |-> r.exc]
     /\ load_tick' = ~load_tick
     /\ UNCHANGED <<pc, fn, arg, timeconvs, idx, out, indexes, outcome, prev>>

\* def load_from_json_string(json_string): TIMECONVS = json.loads(json_string)
load_from_json_string(json_string) ==
  LET r == json_loads(json_string)
  IN /\ TIMECONVS' = IF r.exc = "none" THEN r.value ELSE TIMECONVS
     /\ loaded' = (loaded \/ r.exc = "none")
     /\ load_outcome' = [exc |-> r.exc]
     /\ load_tick' = ~load_tick
     /\ UNCHANGED <<pc, fn, arg, timeconvs, idx, out, indexes, outcome, prev>>

\* def load_from_file(filename): open, read, load_from_json_string
load_from_file(fs, filename) ==
  IF ~fs[filename].readable
  THEN /\ load_outcome' = [exc |-> "IOError"]
       /\ load_tick' = ~load_tick
       /\ UNCHANGED <<TIMECONVS, loaded, pc, fn, arg, timeconvs, idx, out,
                      indexes, outcome, prev>>
  ELSE LET r == json_loads(fs[filename].content)
       IN /\ TIMECONVS' = IF r.exc = "none" THEN r.value ELSE TIMECONVS
          /\ loaded' = (loaded \/ r.exc = "none")
          /\ load_outcome' = [exc |-> r.exc]
          /\ load_tick' = ~load_tick
          /\ UNCHANGED <<pc, fn, arg, timeconvs, idx, out, indexes, outcome, prev>>

-----------------------------------------------------------------------------
(* A conversion call, statement by statement *)

NoArg == [is_numpy_array |-> FALSE, v |-> None]
NoPrev == [fn |-> "none", arg |-> NoArg]

UnchangedStore == UNCHANGED <<TIMECONVS, loaded, load_tick, load_outcome>>

\* entering one of the ten functions with argument a
Enter(f, a) ==
  /\ pc = "idle"
  /\ pc' = "guard"
  /\ fn' = f
  /\ arg' = a
  /\ UNCHANGED <<timeconvs, idx, out, indexes, outcome, prev>>
  /\ UnchangedStore

\* if not TIMECONVS: raise RuntimeError
Guard ==
  /\ pc = "guard"
  /\ IF Falsy(Deref(TIMECONVS))
     THEN pc' = "done" /\ outcome' = Raise("RuntimeError", "guard")
     ELSE pc' = "ref" /\ UNCHANGED outcome
  /\ UNCHANGED <<fn, arg, timeconvs, idx, out, indexes, prev>>
  /\ UnchangedStore

\* timeconvs = TIMECONVS, and for a cross-sensor conversion the result's
\* initial value (is_numpy_array, np.full_like or None)
TakeRef ==
  /\ pc = "ref"
  /\ timeconvs' = TIMECONVS
  /\ IF fn \in ConvertFns
     THEN pc' = "for" /\ idx' = 1 /\ out' = InitOut(arg)
     ELSE pc' = "return" /\ UNCHANGED <<idx, out>>
  /\ UNCHANGED <<fn, arg, indexes, outcome, prev>>
  /\ UnchangedStore

\* mutant: every statement reads the global again
GlobalRef == TIMECONVS

\* the object a call works on once the reference is taken: its local `timeconvs`
LocalRef == timeconvs

\* for tc in timeconvs[key]: one iteration, or the return after the last one
ForStep ==
  /\ pc = "for"
  /\ LET e == SubscriptError(Deref(LocalRef))
     IN IF e.exc # "none"
        THEN pc' = "done" /\ outcome' = e /\ UNCHANGED <<idx, out, indexes>>
        ELSE LET rules == RulesOf(fn, Deref(LocalRef))
             IN IF idx > Len(rules)
                THEN /\ pc' = "done"
                     /\ outcome' = Ok(out)
                     /\ UNCHANGED <<idx, out, indexes>>
                ELSE LET r == Iteration(rules[idx], arg, out)
                     IN IF r.exc # "none"
                        THEN /\ pc' = "done"
                             /\ outcome' = Raise(r.exc, r.at)
                             /\ UNCHANGED <<idx, out, indexes>>
                        ELSE /\ idx' = idx + 1
                             /\ out' = r.out
                             /\ indexes' = r.indexes
                             /\ UNCHANGED <<pc, outcome>>
  /\ UNCHANGED <<fn, arg, timeconvs, prev>>
  /\ UnchangedStore

\* the return statement of a direct affine conversion
ReturnAffine ==
  /\ pc = "return"
  /\ LET e == SubscriptError(Deref(LocalRef))
     IN outcome' = IF e.exc # "none" THEN e ELSE AffineReturn(fn, Deref(LocalRef), arg)
  /\ pc' = "done"
  /\ UNCHANGED <<fn, arg, timeconvs, idx, out, indexes, prev>>
  /\ UnchangedStore

\* the caller drops the result; the next call starts afresh
Reset ==
  /\ pc = "done"
  /\ pc' = "idle"
  /\ fn' = "none"
  /\ arg' = NoArg
  /\ timeconvs' = NoneRef
  /\ idx' = 0
  /\ out' = None
  /\ indexes' = None
  /\ outcome' = NoOutcome
  /\ prev' = NoPrev
  /\ UnchangedStore

AllFinite(a) ==
  IF a.is_numpy_array THEN \A p \in 1..Len(a.v) : Finite(a.v[p]) ELSE Finite(a.v)

\* the caller passes the value a direct affine conversion returned to another one
EnterWithResult(g) ==
  /\ pc = "done"
  /\ fn \in AffineFns
  /\ prev.fn = "none"
  /\ outcome.exc = "none"
  /\ AllFinite([is_numpy_array |-> arg.is_numpy_array, v |-> outcome.value])
  /\ prev' = [fn |-> fn, arg |-> arg]
  /\ fn' = g
  /\ arg' = [is_numpy_array |-> arg.is_numpy_array, v |-> outcome.value]
  /\ pc' = "guard"
  /\ timeconvs' = NoneRef
  /\ outcome' = NoOutcome
  /\ UNCHANGED <<idx, out, indexes>>
  /\ UnchangedStore

-----------------------------------------------------------------------------
(* Inputs *)

Timestamps == {Num(n) : n \in 0..MaxTs}
Batches == UNION {[1..n -> Timestamps] : n \in 1..MaxBatch}

Scalar(t) == [is_numpy_array |-> FALSE, v |-> t]
Array(b) == [is_numpy_array |-> TRUE, v |-> b]

AllFns == ConvertFns \cup AffineFns

JsonStrings ==
  {Garbage, JsonText(PyNone), JsonText(EmptyDict), JsonText(TableA), JsonText(TableB)}

Filenames == {"timeconvs.json", "broken.json", "missing.json"}

FileSystem ==
  [name \in Filenames |->
     CASE name = "timeconvs.json" -> [readable |-> TRUE, content |-> JsonText(TableA)]
       [] name = "broken.json" -> [readable |-> TRUE, content |-> Garbage]
       [] name = "missing.json" -> [readable |-> FALSE, content |-> Garbage]]

-----------------------------------------------------------------------------
(* Specifications *)

InitCaller ==
  /\ pc = "idle"
  /\ fn = "none"
  /\ arg = NoArg
  /\ timeconvs = NoneRef
  /\ idx = 0
  /\ out = None
  /\ indexes = None
  /\ outcome = NoOutcome
  /\ prev = NoPrev

\* the module as imported: TIMECONVS = None
Init ==
  /\ TIMECONVS = NoneRef
  /\ loaded = FALSE
  /\ load_tick = FALSE
  /\ load_outcome = NoLoad
  /\ InitCaller

\* the state after load_from_json_string returned for the document of table t
InitLoaded(tables) ==
  /\ TIMECONVS \in RefsTo(tables)
  /\ loaded = TRUE
  /\ load_tick = TRUE
  /\ load_outcome = [exc |-> "none"]
  /\ InitCaller

EnterScalar(F) == pc = "idle" /\ \E f \in F, t \in Timestamps : Enter(f, Scalar(t))
EnterArray(F) == pc = "idle" /\ \E f \in F, b \in Batches : Enter(f, Array(b))

LoadString == \E s \in JsonStrings : load_from_json_string(s)
LoadFile == \E name \in Filenames : load_from_file(FileSystem, name)

Next ==
  \/ LoadString
  \/ LoadFile
  \/ EnterScalar(AllFns)
  \/ EnterArray(AllFns)
  \/ Guard
  \/ TakeRef
  \/ ForStep
  \/ ReturnAffine
  \/ Reset

Spec == Init /\ [][Next]_vars

\* the interval mapper on every rule list, no load interleaving
NextMap ==
  \/ EnterScalar(ConvertFns)
  \/ EnterArray(ConvertFns)
  \/ Guard
  \/ TakeRef
  \/ ForStep
  \/ Reset

SpecMap == InitLoaded(MapTables) /\ [][NextMap]_vars

SpecChain == InitLoaded(ChainTables) /\ [][NextMap]_vars

\* the direct affine conversions and their compositions
NextAffine ==
  \/ EnterScalar(AffineFns)
  \/ EnterArray(AffineFns)
  \/ Guard
  \/ TakeRef
  \/ ReturnAffine
  \/ \E g \in AffineFns : EnterWithResult(g)
  \/ Reset

SpecAffine == InitLoaded(AffineTables) /\ [][NextAffine]_vars

-----------------------------------------------------------------------------
(* The properties, stated in the terms of the specification *)

Less(a, b) == a[1] * b[2] < b[1] * a[2]
LessEq(a, b) == a[1] * b[2] <= b[1] * a[2]

\* the membership test of the specification for a rule (lo, hi, inner)
Member(tc, t) ==
  LET lo == tc.interval[1]
      hi == tc.interval[2]
  IN IF tc.inner THEN Less(lo, t) /\ LessEq(t, hi)
     ELSE IF lo = None THEN LessEq(t, hi)
     ELSE Less(lo, t)

\* inner with both endpoints, or not inner with exactly one endpoint
WellFormed(tc) ==
  IF tc.inner THEN tc.interval[1] # None /\ tc.interval[2] # None
  ELSE (tc.interval[1] = None) # (tc.interval[2] = None)

\* not inner with both endpoints present, or with both absent
Malformed(tc) ==
  ~tc.inner /\ ((tc.interval[1] = None) = (tc.interval[2] = None))

Matching(rules, t) == {i \in 1..Len(rules) : Member(rules[i], t)}
First(S) == CHOOSE i \in S : \A j \in S : i <= j
Last(S) == CHOOSE i \in S : \A j \in S : j <= i

Value(t, tc) == Add(Mul(t, tc.conv_k), tc.conv_b)

TableInUse == Deref(timeconvs)
RulesInUse == RulesOf(fn, TableInUse)
Returned == pc = "done" /\ outcome.exc = "none"
NotInitialized(o) == o.exc = "RuntimeError" /\ o.at = "guard"
InvalidRule(o) == o.exc = "RuntimeError" /\ o.at = "else"

GuardStep == pc = "guard" /\ pc' # "guard"
LoadStep == load_tick' # load_tick
CallerStep == pc' # pc \/ idx' # idx

\* C1: a conversion call fails with the not-initialized error if and only if
\* no load has succeeded before it.
C1_NotInitializedIffNoLoad ==
  [][GuardStep => (NotInitialized(outcome') <=> ~loaded)]_vars

\* C2: a load that raises leaves the global table the same value as before
\* the call, so every conversion gives afterwards what it gave before.
C2_FailedLoadLeavesStore ==
  [][(LoadStep /\ load_outcome'.exc # "none")
       => /\ TIMECONVS' = TIMECONVS
          /\ \A f \in {"convert_rs_to_dvs", "rs_native_to_relative"} :
               CallOn(f, Deref(TIMECONVS'), Scalar(Num(2)))
                 = CallOn(f, Deref(TIMECONVS), Scalar(Num(2)))]_vars

\* a load has failed while a table was loaded, and a conversion on it returned
C2_Witness ==
  /\ load_outcome.exc \in {"ValueError", "IOError"}
  /\ TIMECONVS = RefTo(TableB)
  /\ timeconvs = RefTo(TableB)
  /\ Returned

\* C10: once a call has taken its local reference, every rule it applies and
\* every value it reads comes from that one table, whatever is loaded
\* meanwhile: its outcome is that of the whole call on that table; and no
\* step of a conversion changes the global table.
C10_OneSnapshotPerCall ==
  /\ []((pc = "done" /\ ~NotInitialized(outcome)) => outcome = Body(fn, TableInUse, arg))
  /\ []((pc = "for" /\ ~Falsy(TableInUse))
          => Loop(RulesInUse, idx, arg, out) = Body(fn, TableInUse, arg))
  /\ [][CallerStep => TIMECONVS' = TIMECONVS]_vars

\* another document was loaded between the first and the second rule
C10_Witness ==
  /\ pc = "for"
  /\ idx = 2
  /\ timeconvs = RefTo(TableA)
  /\ TIMECONVS = RefTo(TableB)
  /\ ~arg.is_numpy_array
  /\ arg.v = Num(2)
  /\ out = Value(Num(2), TableA.rs_to_dvs[1])

\* the rule the last completed iteration applied
LastRule == RulesInUse[idx - 1]
Iterated == pc = "for" /\ idx > 1

\* C3: in all four cross-sensor conversions a rule (lo, hi, inner) selects
\* t iff lo < t <= hi when inner, iff t <= hi when inner is false and lo is
\* absent, iff t > lo when inner is false and hi is absent; and a selected
\* timestamp is mapped to t * conv_k + conv_b.
C3_MembershipTest ==
  Iterated =>
    IF arg.is_numpy_array
    THEN \A p \in 1..Len(arg.v) :
           /\ indexes[p] = Member(LastRule, arg.v[p])
           /\ indexes[p] => out[p] = Value(arg.v[p], LastRule)
    ELSE /\ indexes = Member(LastRule, arg.v)
         /\ indexes => out = Value(arg.v, LastRule)

\* dvs_to_lidar has applied the inner rule (1, 2] to its upper bound 2 and,
\* in the same batch, to its lower bound 1
C3_Witness ==
  /\ Iterated
  /\ fn = "convert_dvs_to_lidar"
  /\ LastRule.inner
  /\ LastRule.interval = <<Num(1), Num(2)>>
  /\ arg.is_numpy_array
  /\ arg.v = <<Num(2), Num(1)>>
  /\ indexes = <<TRUE, FALSE>>

ScalarReturned == Returned /\ fn \in ConvertFns /\ ~arg.is_numpy_array
SeveralMatch == Cardinality(Matching(RulesInUse, arg.v)) > 1

\* C4 as stated: when a scalar matches more than one rule, the result is
\* computed with the coefficients of the earliest matching rule.
C4_FirstMatchWins ==
  (ScalarReturned /\ SeveralMatch)
     => outcome.value = Value(arg.v, RulesInUse[First(Matching(RulesInUse, arg.v))])

\* C4 amended: when a scalar matches more than one rule, the result is
\* computed with the coefficients of the last matching rule in the list.
C4_LastMatchWins ==
  (ScalarReturned /\ SeveralMatch)
     => outcome.value = Value(arg.v, RulesInUse[Last(Matching(RulesInUse, arg.v))])

\* a scalar call returned on a table of which two rules match its timestamp
C4_Witness ==
  /\ ScalarReturned
  /\ Matching(RulesInUse, arg.v) = {1, 2}
  /\ outcome.value = Value(arg.v, RulesInUse[2])
  /\ outcome.value # Value(arg.v, RulesInUse[1])

ArrayDone == pc = "done" /\ fn \in ConvertFns /\ arg.is_numpy_array
ScalarCall(t) == Body(fn, TableInUse, Scalar(t))

C6_MalformedRuleRaises ==
  (/\ pc = "done"
   /\ fn \in ConvertFns
   /\ \A i \in 1..Len(RulesInUse) : WellFormed(RulesInUse[i]) \/ Malformed(RulesInUse[i])
   /\ \E i \in 1..Len(RulesInUse) : Malformed(RulesInUse[i]))
     => InvalidRule(outcome)

ArrayCall == fn \in ConvertFns /\ arg.is_numpy_array
IterationStep == pc = "for" /\ idx' = idx + 1

\* C9: for batch input the output has the shape of the input and starts as
\* all zeros; each rule overwrites exactly the positions its mask selects and
\* changes no other; after the call every position holds x*conv_k + conv_b
\* of the last rule in list order that matches it, and 0 if none does.
C9_BatchLastWriteWins ==
  /\ []((ArrayCall /\ pc \in {"for", "done"}) => Len(out) = Len(arg.v))
  /\ []((ArrayCall /\ pc = "for" /\ idx = 1)
          => \A p \in 1..Len(arg.v) : out[p] = Num(0))
  /\ [][(ArrayCall /\ IterationStep)
          => \A p \in 1..Len(arg.v) :
               IF indexes'[p]
               THEN out'[p] = Value(arg.v[p], RulesInUse[idx])
               ELSE out'[p] = out[p]]_vars
  /\ []((ArrayCall /\ Returned)
          => /\ Len(outcome.value) = Len(arg.v)
             /\ \A p \in 1..Len(arg.v) :
                  LET m == Matching(RulesInUse, arg.v[p])
                  IN outcome.value[p] =
                       IF m = {} THEN Num(0) ELSE Value(arg.v[p], RulesInUse[Last(m)]))

\* a batch returned: its first position is matched by both rules and holds
\* the second rule's value, its second position is matched by none
C9_Witness ==
  /\ ArrayCall
  /\ Returned
  /\ Len(arg.v) = 2
  /\ Matching(RulesInUse, arg.v[1]) = {1, 2}
  /\ outcome.value[1] = Value(arg.v[1], RulesInUse[2])
  /\ outcome.value[1] # Value(arg.v[1], RulesInUse[1])
  /\ Matching(RulesInUse, arg.v[2]) = {}
  /\ outcome.value[2] = Num(0)

\* the change-points of a chain table, in order
Boundaries == [i \in 1..(Len(RulesInUse) - 1) |-> RulesInUse[i].interval[2]]

\* C8: on a table authored as a chain of change-points every timestamp
\* matches exactly one rule, whose coefficients give the result; a timestamp
\* equal to a boundary b_i is converted by the rule whose upper bound is b_i;
\* and no iteration writes a position an earlier rule has written.
C8_ChainPartitions ==
  /\ []((pc = "done" /\ fn \in ConvertFns)
          => /\ outcome.exc = "none"
             /\ \A p \in 1..(IF arg.is_numpy_array THEN Len(arg.v) ELSE 1) :
                  LET t == IF arg.is_numpy_array THEN arg.v[p] ELSE arg.v
                      r == IF arg.is_numpy_array THEN outcome.value[p] ELSE outcome.value
                      m == Matching(RulesInUse, t)
                  IN /\ Cardinality(m) = 1
                     /\ r = Value(t, RulesInUse[First(m)])
                     /\ \A i \in 1..Len(Boundaries) :
                          t = Boundaries[i] => r = Value(t, RulesInUse[i]))
  /\ [][(fn \in ConvertFns /\ IterationStep)
          => IF arg.is_numpy_array
             THEN \A p \in 1..Len(arg.v) : indexes'[p] => out[p] = Num(0)
             ELSE indexes' => out = None]_vars

\* a scalar equal to the boundary shared by the inner rule (1, 2] and the
\* right-unbounded rule was converted by the inner rule
C8_Witness ==
  /\ Returned
  /\ fn \in ConvertFns
  /\ ~arg.is_numpy_array
  /\ Len(RulesInUse) = 3
  /\ arg.v = Boundaries[2]
  /\ outcome.value = Value(arg.v, RulesInUse[2])

Sensor(f) ==
  CASE f \in {"dvs_native_to_relative", "dvs_relative_to_native"} -> "dvs"
    [] f \in {"lidar_native_to_relative", "lidar_relative_to_native"} -> "lidar"
    [] f \in {"rs_native_to_relative", "rs_relative_to_native"} -> "rs"
    [] OTHER -> "none"

ToRelative(f) ==
  f \in {"dvs_native_to_relative", "lidar_native_to_relative", "rs_native_to_relative"}

ScaleOf(s, t) ==
  CASE s = "dvs" -> t.dvs_timestamp_scale
    [] s = "lidar" -> t.lidar_timestamp_scale
    [] s = "rs" -> t.rs_timestamp_scale

\* the call that ended was given the result of the opposite conversion of
\* the same sensor
RoundTrip ==
  /\ pc = "done"
  /\ prev.fn # "none"
  /\ Sensor(fn) = Sensor(prev.fn)
  /\ ToRelative(fn) # ToRelative(prev.fn)

\* C7: for each sensor, with scale and offset from the same table and
\* scale # 0, relative_to_native(native_to_relative(ts)) = ts and
\* native_to_relative(relative_to_native(ts)) = ts.
C7_RoundTrip ==
  (RoundTrip /\ ScaleOf(Sensor(fn), TableInUse) # Num(0))
     => outcome.exc = "none" /\ outcome.value = prev.arg.v

\* lidar_relative_to_native gave back the timestamp 3 that
\* lidar_native_to_relative was given, on a table with scale 1/2 and offset 3/2
C7_Witness ==
  /\ RoundTrip
  /\ fn = "lidar_relative_to_native"
  /\ TableInUse.lidar_timestamp_scale = <<1, 2>>
  /\ TableInUse.lidar_offset_s = <<3, 2>>
  /\ ~arg.is_numpy_array
  /\ prev.arg.v = Num(3)
  /\ arg.v = Num(0)
  /\ outcome.value = Num(3)

====
